---- MODULE Spec2Model ----
(***************************************************************************)
(* A model of the three scripts of the repository:                         *)
(*   Q3/time_service.py  the Flask service with the GET /time endpoint     *)
(*   Q1/ascii_draw.py    draw_rectangle, the prompting rectangle drawer    *)
(*   Q2/db_access.py     main, the employee database console tool          *)
(* Each script is a program of its own and has its own specification:      *)
(* SpecTime, SpecDraw and SpecDb.  Text is modelled as a sequence of       *)
(* one-character strings, so that formatting and parsing are computed.     *)
(***************************************************************************)
EXTENDS Integers, Sequences, FiniteSets, TLC

VARIABLES
    \* ---- Q3/time_service.py
    clock,          \* the system clock: local seconds since 1970-01-01T00:00:00
    ticks,          \* how many times the clock has advanced
    request,        \* the request being handled: [method, path]
    tpc,            \* position of the request in the framework and the handler
    current_time,   \* local of get_current_time_date: the datetime, then its text
    current_date,   \* local of get_current_time_date: the date text
    response,       \* the response sent: [status, body]
    readLog,        \* history: the clock values datetime.now() returned to this request
    \* ---- Q1/ascii_draw.py
    width, height, char,   \* parameters / locals of draw_rectangle
    dpc,            \* position in draw_rectangle
    j, i,           \* loop variables of the drawing loops
    line,           \* the cells printed on the current output line
    out,            \* the finished output lines of the drawing
    messages,       \* number of error messages printed while prompting
    prompts,        \* number of input() calls made
    charArg,        \* history: the char argument the caller passed
    lastRead,       \* history: [width, height, char] last values read from input()
    \* ---- Q2/db_access.py
    env,            \* the environment variables that are set
    mpc,            \* position in main
    connection,     \* local of main: "None", or the state of the connection object
    closes,         \* history: number of connection.close() calls
    table,          \* the committed employees table: [exists, rows]
    nextId,         \* the next value of the SERIAL id sequence
    name, department,  \* locals of main
    exitCode,       \* pending or final exit status of the process (-1: none yet)
    shown,          \* the rows display_all_employees printed
    outcome         \* history: which step decided how main ends

timeVars == <<clock, ticks, request, tpc, current_time, current_date, response, readLog>>
drawVars == <<width, height, char, dpc, j, i, line, out, messages, prompts, charArg, lastRead>>
dbVars == <<env, mpc, connection, closes, table, nextId, name, department, exitCode,
            shown, outcome>>
vars == <<timeVars, drawVars, dbVars>>

(***************************************************************************)
(* Text helpers                                                            *)
(***************************************************************************)
Digits == <<"0", "1", "2", "3", "4", "5", "6", "7", "8", "9">>

DigitChar(d) == Digits[d + 1]

IsDigit(c) == \E d \in 0..9 : Digits[d + 1] = c

DigitVal(c) == CHOOSE d \in 0..9 : Digits[d + 1] = c

\* the decimal text of n >= 0, zero-padded to at least w characters (%02d, %04d)
RECURSIVE Pad(_, _)
Pad(n, w) ==
    IF n < 10 /\ w <= 1 THEN <<DigitChar(n)>>
    ELSE Append(Pad(n \div 10, w - 1), DigitChar(n % 10))

\* the number a text of decimal digits denotes
RECURSIVE DigitsVal(_)
DigitsVal(s) ==
    IF s = <<>> THEN 0
    ELSE 10 * DigitsVal(SubSeq(s, 1, Len(s) - 1)) + DigitVal(s[Len(s)])

(***************************************************************************)
(* Q3/time_service.py                                                      *)
(***************************************************************************)
\* the calendar date of day number z (days since 1970-01-01), proleptic Gregorian
CivilFromDays(days) ==
    LET z   == days + 719468
        era == z \div 146097
        doe == z - era * 146097
        yoe == (doe - doe \div 1460 + doe \div 36524 - doe \div 146096) \div 365
        doy == doe - (365 * yoe + yoe \div 4 - yoe \div 100)
        mp  == (5 * doy + 2) \div 153
        d   == doy - (153 * mp + 2) \div 5 + 1
        m   == IF mp < 10 THEN mp + 3 ELSE mp - 9
        y   == yoe + era * 400 + (IF m <= 2 THEN 1 ELSE 0)
    IN  [year |-> y, month |-> m, day |-> d]

\* datetime.now(): the broken-down local time of one clock value
DatetimeNow(t) ==
    LET date == CivilFromDays(t \div 86400)
        sod  == t % 86400
    IN  [year |-> date.year, month |-> date.month, day |-> date.day,
         hour |-> sod \div 3600, minute |-> (sod % 3600) \div 60, second |-> sod % 60]

\* dt.strftime("%Y-%m-%d")
StrftimeDate(dt) ==
    Pad(dt.year, 4) \o <<"-">> \o Pad(dt.month, 2) \o <<"-">> \o Pad(dt.day, 2)

\* StrftimeTime as it would be with the 12-hour %I in place of %H
StrftimeTime12Hour(dt) ==
    Pad(IF dt.hour % 12 = 0 THEN 12 ELSE dt.hour % 12, 2)
        \o <<":">> \o Pad(dt.minute, 2) \o <<":">> \o Pad(dt.second, 2)

\* dt.strftime("%H:%M:%S")
StrftimeTime(dt) ==
    Pad(dt.hour, 2) \o <<":">> \o Pad(dt.minute, 2) \o <<":">> \o Pad(dt.second, 2)


\* the day number (days since 1970-01-01) of a calendar date
DaysFromCivil(y, m, d) ==
    LET yy  == IF m <= 2 THEN y - 1 ELSE y
        era == yy \div 400
        yoe == yy - era * 400
        mp  == IF m > 2 THEN m - 3 ELSE m + 9
        doy == (153 * mp + 2) \div 5 + d - 1
        doe == yoe * 365 + yoe \div 4 - yoe \div 100 + doy
    IN  era * 146097 + doe - 719468

\* the clock value of a local date and time of day
Timestamp(y, m, d, hh, mm, ss) ==
    DaysFromCivil(y, m, d) * 86400 + hh * 3600 + mm * 60 + ss

MaxTicks == 2

\* the clock values the service may be started at
StartDays ==
    {DaysFromCivil(2030, 1, 1), DaysFromCivil(2029, 12, 31), DaysFromCivil(2024, 2, 29)}

StartClocks ==
    {day * 86400 + hh * 3600 + mm * 60 + ss :
        day \in StartDays, hh \in 0..23, mm \in {0, 9, 59}, ss \in {0, 10, 59}}

Methods == {"GET", "HEAD", "OPTIONS", "POST"}

Paths == {"/time", "/unknown", "/static/x"}

Unset == <<>>

NoResponse == [status |-> 0, body |-> [shape |-> "none", items |-> <<>>]]

NoRequest == [method |-> "", path |-> ""]

\* the URL map of the application: Flask(__name__) registers the static
\* rule, @app.route registers /time; a rule that lists GET also takes HEAD,
\* and every rule takes OPTIONS
UrlMap ==
    {[rule |-> "/static/<path:filename>", endpoint |-> "static",
      methods |-> {"GET", "HEAD", "OPTIONS"}],
     [rule |-> "/time", endpoint |-> "get_current_time_date",
      methods |-> {"GET"} \cup {"HEAD", "OPTIONS"}]}

\* RuleMatches as it would be if the /time rule took every path
RuleMatchesAnyPath(r, path) ==
    \/ r.rule = "/time"
    \/ r.rule = "/static/<path:filename>" /\ path = "/static/x"

RuleMatches(r, path) ==
    \/ r.rule = path
    \/ r.rule = "/static/<path:filename>" /\ path = "/static/x"

\* flask.jsonify(*args): one argument is serialised as itself, several as a list
Jsonify(args) ==
    IF Len(args) = 1 THEN [shape |-> "object", items |-> args]
    ELSE [shape |-> "array", items |-> args]

\* a JSON object is the set of its <<key, value>> pairs
Dict(key, value) == {<<key, value>>}

TimeInit ==
    /\ clock \in StartClocks
    /\ ticks = 0
    /\ request = NoRequest
    /\ tpc = "listening"
    /\ current_time = Unset
    /\ current_date = Unset
    /\ response = NoResponse
    /\ readLog = <<>>

\* the system clock advances by one second, at any moment
Tick ==
    /\ ticks < MaxTicks
    /\ clock' = clock + 1
    /\ ticks' = ticks + 1
    /\ UNCHANGED <<request, tpc, current_time, current_date, response, readLog>>
    /\ UNCHANGED <<drawVars, dbVars>>

\* a request arrives; the previous request's state is gone
Receive ==
    /\ tpc \in {"listening", "responded"}
    /\ \E m \in Methods, p \in Paths : request' = [method |-> m, path |-> p]
    /\ tpc' = "dispatch"
    /\ current_time' = Unset
    /\ current_date' = Unset
    /\ response' = NoResponse
    /\ readLog' = <<>>
    /\ UNCHANGED <<clock, ticks>>
    /\ UNCHANGED <<drawVars, dbVars>>

Respond(status, body) ==
    /\ response' = [status |-> status, body |-> body]
    /\ tpc' = "responded"

\* no rule matches the path: the framework's 404
NotFound ==
    /\ tpc = "dispatch"
    /\ ~ \E r \in UrlMap : RuleMatches(r, request.path)
    /\ Respond(404, [shape |-> "error", items |-> <<>>])
    /\ UNCHANGED <<clock, ticks, request, current_time, current_date, readLog>>
    /\ UNCHANGED <<drawVars, dbVars>>

\* a rule matches the path but not the method: the framework's 405
MethodNotAllowed ==
    /\ tpc = "dispatch"
    /\ \E r \in UrlMap : RuleMatches(r, request.path)
    /\ ~ \E r \in UrlMap : RuleMatches(r, request.path) /\ request.method \in r.methods
    /\ Respond(405, [shape |-> "error", items |-> <<>>])
    /\ UNCHANGED <<clock, ticks, request, current_time, current_date, readLog>>
    /\ UNCHANGED <<drawVars, dbVars>>

\* OPTIONS on a matched rule is answered by the framework, not by the view
AutomaticOptions ==
    /\ tpc = "dispatch"
    /\ request.method = "OPTIONS"
    /\ \E r \in UrlMap : RuleMatches(r, request.path)
    /\ Respond(200, [shape |-> "none", items |-> <<>>])
    /\ UNCHANGED <<clock, ticks, request, current_time, current_date, readLog>>
    /\ UNCHANGED <<drawVars, dbVars>>

\* the static rule: the file is sent if the file system has it, else 404
StaticFile ==
    /\ tpc = "dispatch"
    /\ request.method \in {"GET", "HEAD"}
    /\ \E r \in UrlMap : r.endpoint = "static" /\ RuleMatches(r, request.path)
    /\ \E exists \in BOOLEAN :
          IF exists
          THEN Respond(200, [shape |-> IF request.method = "HEAD" THEN "none" ELSE "file",
                             items |-> <<>>])
          ELSE Respond(404, [shape |-> "error", items |-> <<>>])
    /\ UNCHANGED <<clock, ticks, request, current_time, current_date, readLog>>
    /\ UNCHANGED <<drawVars, dbVars>>

\* GET or HEAD on /time: the view function is called
CallView ==
    /\ tpc = "dispatch"
    /\ request.method \in {"GET", "HEAD"}
    /\ \E r \in UrlMap : r.endpoint = "get_current_time_date" /\ RuleMatches(r, request.path)
    /\ tpc' = "line10"
    /\ UNCHANGED <<clock, ticks, request, current_time, current_date, response, readLog>>
    /\ UNCHANGED <<drawVars, dbVars>>

\* current_time = datetime.now()
ReadClock ==
    /\ tpc = "line10"
    /\ current_time' = DatetimeNow(clock)
    /\ readLog' = Append(readLog, clock)
    /\ tpc' = "line11"
    /\ UNCHANGED <<clock, ticks, request, current_date, response>>
    /\ UNCHANGED <<drawVars, dbVars>>

\* current_date = current_time.strftime("%Y-%m-%d")
FormatDate ==
    /\ tpc = "line11"
    /\ current_date' = StrftimeDate(current_time)
    /\ tpc' = "line12"
    /\ UNCHANGED <<clock, ticks, request, current_time, response, readLog>>
    /\ UNCHANGED <<drawVars, dbVars>>

\* FormatTime as it would be with the time taken from a second datetime.now()
FormatTimeFromNewRead ==
    /\ tpc = "line12"
    /\ current_time' = StrftimeTime(DatetimeNow(clock))
    /\ readLog' = Append(readLog, clock)
    /\ tpc' = "line13"
    /\ UNCHANGED <<clock, ticks, request, current_date, response>>
    /\ UNCHANGED <<drawVars, dbVars>>

\* current_time = current_time.strftime("%H:%M:%S")
FormatTime ==
    /\ tpc = "line12"
    /\ current_time' = StrftimeTime(current_time)
    /\ tpc' = "line13"
    /\ UNCHANGED <<clock, ticks, request, current_date, response, readLog>>
    /\ UNCHANGED <<drawVars, dbVars>>

\* ReturnArgs as it would be with the time left out of the response
ReturnArgsDateOnly ==
    <<Dict("current_date", current_date)>>

\* the arguments the view passes to jsonify
ReturnArgs ==
    <<Dict("current_date", current_date), Dict("current_time", current_time)>>

\* return jsonify(...): status 200; the body of a HEAD response is not sent
Return ==
    /\ tpc = "line13"
    /\ Respond(200, IF request.method = "HEAD"
                    THEN [shape |-> "none", items |-> <<>>]
                    ELSE Jsonify(ReturnArgs))
    /\ UNCHANGED <<clock, ticks, request, current_time, current_date, readLog>>
    /\ UNCHANGED <<drawVars, dbVars>>

TimeNext ==
    \/ Tick
    \/ Receive
    \/ NotFound
    \/ MethodNotAllowed
    \/ AutomaticOptions
    \/ StaticFile
    \/ CallView
    \/ ReadClock
    \/ FormatDate
    \/ FormatTime
    \/ Return

(***************************************************************************)
(* Q1/ascii_draw.py                                                        *)
(***************************************************************************)
\* str.strip(), and the whitespace int() ignores around a number
RECURSIVE Strip(_)
Strip(s) ==
    IF s = <<>> THEN s
    ELSE IF Head(s) = " " THEN Strip(Tail(s))
    ELSE IF s[Len(s)] = " " THEN Strip(SubSeq(s, 1, Len(s) - 1))
    ELSE s

\* the text after an optional sign
Unsigned(t) == IF t # <<>> /\ Head(t) \in {"-", "+"} THEN Tail(t) ELSE t

\* whether int(s) returns (TRUE) or raises ValueError (FALSE)
IsIntText(s) ==
    LET body == Unsigned(Strip(s))
    IN  body # <<>> /\ \A k \in 1..Len(body) : IsDigit(body[k])

\* int(s)
IntOf(s) ==
    LET t == Strip(s)
    IN  IF Head(t) = "-" THEN 0 - DigitsVal(Unsigned(t)) ELSE DigitsVal(Unsigned(t))

MaxPrompts == 6

\* what the user may type at a prompt
Inputs ==
    {<<>>, <<" ">>, <<"2">>, <<"3">>, <<"4">>, <<"-", "5">>, <<" ", "3">>,
     <<"x">>, <<"x", "y">>}

\* the script calls draw_rectangle(0, 0, ''); another caller may pass sizes
\* that need no prompt and a character of its own
SizeArgs == {0, 3}

CharArgs == {<<>>, <<"#">>}

DrawInit ==
    /\ width \in SizeArgs
    /\ height \in SizeArgs
    /\ char \in CharArgs
    /\ charArg = char
    /\ dpc = "line5"
    /\ j = 0
    /\ i = 0
    /\ line = <<>>
    /\ out = <<>>
    /\ messages = 0
    /\ prompts = 0
    /\ lastRead = [width |-> width, height |-> height, char |-> <<>>, charRead |-> FALSE]

\* TooSmall as it would be with "and" in place of "or"
TooSmallBoth(w, h) == w < 3 /\ h < 3

\* if width < 3 or height < 3: print the error and prompt for both
TooSmall(w, h) == w < 3 \/ h < 3

CheckSize ==
    /\ dpc = "line5"
    /\ IF TooSmall(width, height)
       THEN /\ messages' = messages + 1
            /\ dpc' = "line7"
       ELSE /\ messages' = messages
            /\ dpc' = "line11"
    /\ UNCHANGED <<width, height, char, j, i, line, out, prompts, charArg, lastRead>>
    /\ UNCHANGED <<timeVars, dbVars>>

\* width = int(input(...)); ValueError prints a message and restarts the loop
InputWidth ==
    /\ dpc = "line7"
    /\ prompts < MaxPrompts
    /\ prompts' = prompts + 1
    /\ \E s \in Inputs :
          IF IsIntText(s)
          THEN /\ width' = IntOf(s)
               /\ lastRead' = [lastRead EXCEPT !.width = IntOf(s)]
               /\ messages' = messages
               /\ dpc' = "line8"
          ELSE /\ messages' = messages + 1
               /\ dpc' = "line5"
               /\ UNCHANGED <<width, lastRead>>
    /\ UNCHANGED <<height, char, j, i, line, out, charArg>>
    /\ UNCHANGED <<timeVars, dbVars>>

\* height = int(input(...)); continue
InputHeight ==
    /\ dpc = "line8"
    /\ prompts < MaxPrompts
    /\ prompts' = prompts + 1
    /\ \E s \in Inputs :
          IF IsIntText(s)
          THEN /\ height' = IntOf(s)
               /\ lastRead' = [lastRead EXCEPT !.height = IntOf(s)]
               /\ messages' = messages
          ELSE /\ messages' = messages + 1
               /\ UNCHANGED <<height, lastRead>>
    /\ dpc' = "line5"
    /\ UNCHANGED <<width, char, j, i, line, out, charArg>>
    /\ UNCHANGED <<timeVars, dbVars>>

\* whether the character typed ends the prompting loop
CharAccepted(s) == Len(s) = 1

\* char = input(...); a string of another length than 1 restarts the loop
InputChar ==
    /\ dpc = "line11"
    /\ prompts < MaxPrompts
    /\ prompts' = prompts + 1
    /\ \E s \in Inputs :
          /\ char' = s
          /\ lastRead' = [lastRead EXCEPT !.char = s, !.charRead = TRUE]
          /\ IF CharAccepted(s)
             THEN /\ messages' = messages
                  /\ dpc' = "line20"
             ELSE /\ messages' = messages + 1
                  /\ dpc' = "line5"
    /\ UNCHANGED <<width, height, j, i, line, out, charArg>>
    /\ UNCHANGED <<timeVars, dbVars>>

\* for j in range(height)
NextRow ==
    /\ dpc = "line20"
    /\ IF j < height
       THEN /\ i' = 0
            /\ dpc' = "line21"
       ELSE /\ i' = i
            /\ dpc' = "done"
    /\ UNCHANGED <<width, height, char, j, line, out, messages, prompts, charArg, lastRead>>
    /\ UNCHANGED <<timeVars, dbVars>>

\* IsBorder as it would be with the last row taken to be row height
IsBorderOffByOne(jj, ii, w, h) == jj = 0 \/ jj = h \/ ii = 0 \/ ii = w - 1

\* the condition of line 22
IsBorder(jj, ii, w, h) == jj = 0 \/ jj = h - 1 \/ ii = 0 \/ ii = w - 1

\* for i in range(width): print the character or a space, end=""
PrintCell ==
    /\ dpc = "line21"
    /\ i < width
    /\ line' = line \o (IF IsBorder(j, i, width, height) THEN char ELSE <<" ">>)
    /\ i' = i + 1
    /\ UNCHANGED <<width, height, char, dpc, j, out, messages, prompts, charArg, lastRead>>
    /\ UNCHANGED <<timeVars, dbVars>>

\* print(): the row is complete
EndRow ==
    /\ dpc = "line21"
    /\ i >= width
    /\ out' = Append(out, line)
    /\ line' = <<>>
    /\ j' = j + 1
    /\ dpc' = "line20"
    /\ UNCHANGED <<width, height, char, i, messages, prompts, charArg, lastRead>>
    /\ UNCHANGED <<timeVars, dbVars>>

DrawNext ==
    \/ CheckSize
    \/ InputWidth
    \/ InputHeight
    \/ InputChar
    \/ NextRow
    \/ PrintCell
    \/ EndRow

(***************************************************************************)
(* Q2/db_access.py                                                         *)
(***************************************************************************)
RequiredEnv == {"DB_HOST", "DB_PORT", "DB_NAME", "DB_USER", "DB_PASSWORD"}

MaxExisting == 1

\* what the user may type at the Name and Department prompts
NameInputs == {<<>>, <<" ">>, <<"a">>, <<" ", "b", " ">>}

\* the rows the table may hold before the run
ExistingRows(n) == [k \in 1..n |-> [id |-> k, name |-> <<"z">>, department |-> <<"d">>]]

DbInit ==
    /\ env \in SUBSET RequiredEnv
    /\ mpc = "line211"
    /\ connection = "None"
    /\ closes = 0
    /\ table \in {[exists |-> FALSE, rows |-> <<>>]}
                  \cup {[exists |-> TRUE, rows |-> ExistingRows(n)] : n \in 0..MaxExisting}
    /\ nextId = Len(table.rows) + 1
    /\ name = <<>>
    /\ department = <<>>
    /\ exitCode = -1
    /\ shown = <<>>
    /\ outcome = "running"

\* sys.exit(code) outside the try statement of main: the process ends
SysExit(code, why) ==
    /\ exitCode' = code
    /\ outcome' = why
    /\ mpc' = "exited"

\* SysExitInTry as it would be if the exit did not run the finally clause
ExitSkippingFinally(code, why) ==
    /\ exitCode' = code
    /\ outcome' = why
    /\ mpc' = "exited"

\* sys.exit(code), or an exception, inside the try statement of main:
\* the finally clause runs before the process ends
SysExitInTry(code, why) ==
    /\ exitCode' = code
    /\ outcome' = why
    /\ mpc' = "finally"

\* connection = connect_to_database(); if connection is None: sys.exit(1)
\* get_env_variable exits the process on the first variable that is missing
ConnectToDatabase ==
    /\ mpc = "line211"
    /\ IF ~ (RequiredEnv \subseteq env)
       THEN /\ SysExit(1, "env_missing")
            /\ UNCHANGED connection
       ELSE \E ok \in BOOLEAN :
               IF ok
               THEN /\ connection' = "open"
                    /\ mpc' = "line217"
                    /\ UNCHANGED <<exitCode, outcome>>
               ELSE /\ connection' = "None"
                    /\ SysExit(1, "connect_failed")
    /\ UNCHANGED <<env, closes, table, nextId, name, department, shown>>
    /\ UNCHANGED <<timeVars, drawVars>>

\* if not create_table(connection): sys.exit(1)
CreateTable ==
    /\ mpc = "line217"
    /\ \E ok \in BOOLEAN :
          IF ok
          THEN /\ table' = [table EXCEPT !.exists = TRUE]
               /\ mpc' = "line221"
               /\ UNCHANGED <<exitCode, outcome>>
          ELSE /\ table' = table
               /\ SysExitInTry(1, "create_failed")
    /\ UNCHANGED <<env, connection, closes, nextId, name, department, shown>>
    /\ UNCHANGED <<timeVars, drawVars>>

\* name, department = get_user_input(): both are read and stripped, then checked
GetUserInput ==
    /\ mpc = "line221"
    /\ \E n \in NameInputs, d \in NameInputs :
          IF Strip(n) = <<>> \/ Strip(d) = <<>>
          THEN /\ SysExitInTry(1, "empty_input")
               /\ UNCHANGED <<name, department>>
          ELSE /\ name' = Strip(n)
               /\ department' = Strip(d)
               /\ mpc' = "line224"
               /\ UNCHANGED <<exitCode, outcome>>
    /\ UNCHANGED <<env, connection, closes, table, nextId, shown>>
    /\ UNCHANGED <<timeVars, drawVars>>

\* if not insert_employee(connection, name, department): sys.exit(1)
\* execute may fail, or commit after it; either way rollback is called, which
\* undoes the row but not the id taken from the sequence; a failing rollback
\* raises out of insert_employee and of the try statement
InsertEmployee ==
    /\ mpc = "line224"
    /\ \E result \in {"ok", "execute_fails", "commit_fails"}, rollbackOk \in BOOLEAN :
          /\ nextId' = IF result = "execute_fails" THEN nextId ELSE nextId + 1
          /\ IF result = "ok"
             THEN /\ table' = [table EXCEPT !.rows =
                        Append(@, [id |-> nextId, name |-> name, department |-> department])]
                  /\ mpc' = "line230"
                  /\ UNCHANGED <<exitCode, outcome>>
             ELSE /\ table' = table
                  /\ SysExitInTry(1, IF rollbackOk THEN "insert_failed" ELSE "rollback_failed")
    /\ UNCHANGED <<env, connection, closes, name, department, shown>>
    /\ UNCHANGED <<timeVars, drawVars>>

\* display_all_employees(connection): a database error is printed, not raised
DisplayAllEmployees ==
    /\ mpc = "line230"
    /\ \E ok \in BOOLEAN :
          IF ok
          THEN /\ shown' = table.rows
               /\ outcome' = "normal"
          ELSE /\ shown' = <<>>
               /\ outcome' = "display_failed"
    /\ exitCode' = 0
    /\ mpc' = "finally"
    /\ UNCHANGED <<env, connection, closes, table, nextId, name, department>>
    /\ UNCHANGED <<timeVars, drawVars>>

\* finally: if connection: connection.close(); then the process ends
Finally ==
    /\ mpc = "finally"
    /\ IF connection # "None"
       THEN /\ connection' = "closed"
            /\ closes' = closes + 1
       ELSE UNCHANGED <<connection, closes>>
    /\ mpc' = "exited"
    /\ UNCHANGED <<env, table, nextId, name, department, exitCode, shown, outcome>>
    /\ UNCHANGED <<timeVars, drawVars>>

DbNext ==
    \/ ConnectToDatabase
    \/ CreateTable
    \/ GetUserInput
    \/ InsertEmployee
    \/ DisplayAllEmployees
    \/ Finally

\* the database script, not running
DbIdle ==
    /\ env = {}
    /\ mpc = "off"
    /\ connection = "None"
    /\ closes = 0
    /\ table = [exists |-> FALSE, rows |-> <<>>]
    /\ nextId = 1
    /\ name = <<>>
    /\ department = <<>>
    /\ exitCode = -1
    /\ shown = <<>>
    /\ outcome = "running"

(***************************************************************************)
(* Specifications                                                          *)
(***************************************************************************)
\* the other programs, not running
TimeIdle ==
    /\ clock = 0
    /\ ticks = 0
    /\ request = NoRequest
    /\ tpc = "off"
    /\ current_time = Unset
    /\ current_date = Unset
    /\ response = NoResponse
    /\ readLog = <<>>

DrawIdle ==
    /\ width = 0
    /\ height = 0
    /\ char = <<>>
    /\ charArg = <<>>
    /\ dpc = "off"
    /\ j = 0
    /\ i = 0
    /\ line = <<>>
    /\ out = <<>>
    /\ messages = 0
    /\ prompts = 0
    /\ lastRead = [width |-> 0, height |-> 0, char |-> <<>>, charRead |-> FALSE]

InitTime == TimeInit /\ DrawIdle /\ DbIdle

InitDraw == DrawInit /\ TimeIdle /\ DbIdle

InitDb == DbInit /\ TimeIdle /\ DrawIdle

SpecTime == InitTime /\ [][TimeNext]_vars

SpecDraw == InitDraw /\ [][DrawNext]_vars

SpecDb == InitDb /\ [][DbNext]_vars

(***************************************************************************)
(* Properties of Q3/time_service.py                                        *)
(***************************************************************************)
\* a response to GET /time has been sent
Served == tpc = "responded" /\ request.method = "GET" /\ request.path = "/time"

\* the <<key, value>> pairs found in a response body, in whichever object
BodyPairs(body) == UNION {body.items[k] : k \in 1..Len(body.items)}

FieldNames(body) == {kv[1] : kv \in BodyPairs(body)}

FieldValue(body, key) ==
    CHOOSE v \in {kv[2] : kv \in BodyPairs(body)} : <<key, v>> \in BodyPairs(body)

\* the response body holds a time snapshot
HasSnapshot(body) == FieldNames(body) \cap {"current_date", "current_time"} # {}

\* the instant a date text YYYY-MM-DD and a time text HH:MM:SS denote
InstantOf(date, time) ==
    Timestamp(DigitsVal(SubSeq(date, 1, 4)), DigitsVal(SubSeq(date, 6, 7)),
              DigitsVal(SubSeq(date, 9, 10)), DigitsVal(SubSeq(time, 1, 2)),
              DigitsVal(SubSeq(time, 4, 5)), DigitsVal(SubSeq(time, 7, 8)))

\* C1: whatever the clock does while GET /time is handled, the handler reads
\* the clock once, and current_date and current_time of the response both
\* denote the instant of that one read.
C1_SingleClockRead ==
    /\ Len(readLog) <= 1
    /\ Served =>
          /\ Len(readLog) = 1
          /\ InstantOf(FieldValue(response.body, "current_date"),
                       FieldValue(response.body, "current_time")) = readLog[1]

\* C1 witness: a response sent after the clock went past midnight during the
\* handling, so that the clock's date is no longer the date that was read
C1_Witness ==
    /\ Served
    /\ clock > readLog[1]
    /\ StrftimeDate(DatetimeNow(clock)) # FieldValue(response.body, "current_date")

\* C2: with the clock frozen at 2030-01-01T00:00:00, the body of GET /time is
\* the one object {"current_date": "2030-01-01", "current_time": "00:00:00"}.
C2_FrozenClockBody ==
    (Served /\ clock = Timestamp(2030, 1, 1, 0, 0, 0) /\ readLog = <<clock>>) =>
        response.body =
            [shape |-> "object",
             items |-> <<{<<"current_date", <<"2", "0", "3", "0", "-", "0", "1", "-", "0", "1">>>>,
                          <<"current_time", <<"0", "0", ":", "0", "0", ":", "0", "0">>>>}>>]

TextChars == {Digits[k] : k \in 1..10} \cup {"-", ":"}

\* C3: every GET /time is answered with status 200 and a body whose field
\* names are current_date and current_time, each with a non-empty text
\* as its value, whatever the clock reads.
C3_ShapeOfResponse ==
    Served =>
        /\ response.status = 200
        /\ FieldNames(response.body) = {"current_date", "current_time"}
        /\ Cardinality(BodyPairs(response.body)) = 2
        /\ \A kv \in BodyPairs(response.body) :
              /\ Len(kv[2]) > 0
              /\ \A k \in 1..Len(kv[2]) : kv[2][k] \in TextChars

\* C3 witness: GET /time answered with both fields at a later clock value
\* than the service started at
C3_Witness ==
    /\ Served
    /\ response.status = 200
    /\ ticks = MaxTicks
    /\ FieldNames(response.body) = {"current_date", "current_time"}

\* C4 as claimed: every request other than GET /time is answered with a
\* status other than 200 and without a time snapshot.
C4_OnlyGetTimeIs200 ==
    (tpc = "responded" /\ ~ Served) =>
        /\ response.status # 200
        /\ ~ HasSnapshot(response.body)

\* C4 as amended: a path that no rule matches is answered 404, a method
\* other than GET, HEAD and OPTIONS on /time is answered 405, and no request
\* other than GET /time is answered with a time snapshot.
C4_UnmatchedRequests ==
    tpc = "responded" =>
        /\ request.path = "/unknown" => response.status = 404
        /\ (request.path = "/time" /\ request.method \notin {"GET", "HEAD", "OPTIONS"})
              => response.status = 405
        /\ ~ Served => ~ HasSnapshot(response.body)

\* C4 witness: POST /time refused
C4_Witness ==
    /\ tpc = "responded"
    /\ request = [method |-> "POST", path |-> "/time"]
    /\ response.status = 405

\* C5: current_time of a GET /time response is HH:MM:SS, two digits each,
\* HH in 00..23, MM and SS in 00..59, and it is the time of day of the
\* instant that was read.
C5_TimeFormat ==
    Served =>
        LET t  == FieldValue(response.body, "current_time")
            hh == DigitsVal(SubSeq(t, 1, 2))
            mm == DigitsVal(SubSeq(t, 4, 5))
            ss == DigitsVal(SubSeq(t, 7, 8))
        IN  /\ Len(t) = 8
            /\ t[3] = ":" /\ t[6] = ":"
            /\ \A k \in {1, 2, 4, 5, 7, 8} : IsDigit(t[k])
            /\ hh \in 0..23 /\ mm \in 0..59 /\ ss \in 0..59
            /\ hh * 3600 + mm * 60 + ss = readLog[1] % 86400

\* C5 witness: the last second of a day is reported as 23:59:59
C5_Witness ==
    /\ Served
    /\ FieldValue(response.body, "current_time")
          = <<"2", "3", ":", "5", "9", ":", "5", "9">>

(***************************************************************************)
(* Properties of Q1/ascii_draw.py                                          *)
(***************************************************************************)
\* C6: draw_rectangle prints nothing of the rectangle while it prompts, and
\* once it draws, width >= 3, height >= 3 and char has length 1, all three
\* are the values last read from the user where one was read (char always
\* is one), and it ends only after the drawing.
C6_DrawsOnlyValidInput ==
    /\ dpc \in {"line5", "line7", "line8", "line11"} => out = <<>> /\ line = <<>>
    /\ dpc \in {"line20", "line21", "done"} =>
          /\ width >= 3 /\ height >= 3
          /\ Len(char) = 1
          /\ lastRead.charRead /\ char = lastRead.char
          /\ width = lastRead.width /\ height = lastRead.height
    /\ dpc = "done" => Len(out) = height

\* C6 witness: the caller passed '#', the user was re-prompted at least
\* twice, and the rectangle was drawn with the character typed last
C6_Witness ==
    /\ dpc = "done"
    /\ charArg = <<"#">>
    /\ messages >= 2
    /\ char = <<"x">>
    /\ width = 4

\* C7 as claimed: height rows of width cells are printed, and a cell is the
\* chosen character if and only if it is in the first or last row or column,
\* and a space otherwise.
C7_CellIsCharIffBorder ==
    dpc = "done" =>
        /\ Len(out) = height
        /\ \A r \in 1..Len(out) :
              /\ Len(out[r]) = width
              /\ \A c \in 1..Len(out[r]) :
                    /\ out[r][c] = char[1] <=> (r = 1 \/ r = height \/ c = 1 \/ c = width)
                    /\ ~ (r = 1 \/ r = height \/ c = 1 \/ c = width) => out[r][c] = " "

\* C7 as amended: height rows of width cells are printed, and a cell is the
\* chosen character if it is in the first or last row or column and a space
\* otherwise; the two differ unless the chosen character is a space.
C7_RectangleCells ==
    dpc = "done" =>
        /\ Len(out) = height
        /\ \A r \in 1..Len(out) :
              /\ Len(out[r]) = width
              /\ \A c \in 1..Len(out[r]) :
                    out[r][c] = IF r = 1 \/ r = height \/ c = 1 \/ c = width
                                THEN char[1] ELSE " "

\* C7 witness: a 4 by 3 rectangle of x
C7_Witness ==
    /\ dpc = "done"
    /\ out = << <<"x", "x", "x", "x">>, <<"x", " ", " ", "x">>, <<"x", "x", "x", "x">> >>

(***************************************************************************)
(* Properties of Q2/db_access.py                                           *)
(***************************************************************************)
\* C8: once connect_to_database has returned a connection, main closes it
\* exactly once, at its end, however it ends: the connection is not closed
\* while main runs, and the process ends with it closed once.
C8_ClosedExactlyOnce ==
    /\ closes <= 1
    /\ mpc \in {"line217", "line221", "line224", "line230", "finally"} =>
          connection = "open" /\ closes = 0
    /\ (mpc = "exited" /\ connection # "None") =>
          /\ closes = 1
          /\ connection = "closed"
          /\ outcome \in {"normal", "create_failed", "empty_input", "insert_failed",
                          "rollback_failed", "display_failed"}

\* C8 witness: the process has ended after a failed insert, the connection closed
C8_Witness ==
    /\ mpc = "exited"
    /\ outcome = "insert_failed"
    /\ exitCode = 1
    /\ closes = 1

====
